---- MODULE Spec2Model ----
(***************************************************************************)
(* A model of the sudoku solver of src/index.ts: parseGame, checkFullBoard,*)
(* the recursive solve (one action per step of a stack frame, boards kept  *)
(* in a heap so that copies and aliases differ), prettyPrint and main.     *)
(***************************************************************************)
EXTENDS Integers, Sequences, FiniteSets, TLC

VARIABLES content, pc, board, heap, stack, ret, out, err, given

\* given: the board the outermost solve was called with, as it was then
vars == <<content, pc, board, heap, stack, ret, out, err, given>>

(***************************************************************************)
(* Types (index.ts:4-11)                                                   *)
(***************************************************************************)
\* the empty cell, `null` of type Cell
Null == -1
\* Number.parseInt's NaN
NaN == -2
Numbers == 1..9
Domain == 0..8
Coords == Domain \X Domain
DELIMITER == " "
EOL == "\n"
ALL_NUMBERS == <<1, 2, 3, 4, 5, 6, 7, 8, 9>>
\* the characters Number.parseInt reads as a number, "0" first
DigitChars == <<"0", "1", "2", "3", "4", "5", "6", "7", "8", "9">>

\* integer division and remainder as Math.floor(x / 3) and x % 3 on x >= 0
Floor3(x) == x \div 3
Range(s) == {s[k] : k \in 1..Len(s)}

(***************************************************************************)
(* Board accessors (index.ts:41-110)                                       *)
(***************************************************************************)
\* falsy items (null, and 0) are skipped
compressContents(initialContents) ==
    {initialContents[k] : k \in {n \in 1..Len(initialContents) :
        initialContents[n] # Null /\ initialContents[n] # 0}}

getRowContents(b, coord) == [k \in 1..9 |-> b[coord[1]][k - 1]]

transpose(matrix) == [colIndex \in Domain |-> [row \in Domain |-> matrix[row][colIndex]]]

getColumnContents(b, coord) ==
    LET transposed == transpose(b)
    IN  [k \in 1..9 |-> transposed[coord[2]][k - 1]]

getSubGridContents(b, coord) ==
    LET subCoord == <<Floor3(coord[1]), Floor3(coord[2])>>
    IN  [k \in 1..9 |->
            LET i == k - 1
                subGridOffset == <<Floor3(i), i % 3>>
            IN  b[subCoord[1] * 3 + subGridOffset[1]][subCoord[2] * 3 + subGridOffset[2]]]

\* [...a].filter(x => !b.has(x)): the order of a is kept
setDifference(a, b) == SelectSeq(a, LAMBDA x : x \notin b)

setIntersection(a, b) == a \cap b

\* getOptionsForCoord without the sub-grid's contents
getOptionsIgnoringSubGrid(b, coord) ==
    LET row == getRowContents(b, coord)
        col == getColumnContents(b, coord)
        contents == compressContents(row \o col)
    IN  setDifference(ALL_NUMBERS, contents)

\* getOptionsForCoord with the options in descending order
getOptionsDescending(b, coord) ==
    LET row == getRowContents(b, coord)
        col == getColumnContents(b, coord)
        sub == getSubGridContents(b, coord)
        contents == compressContents(row \o col \o sub)
        options == setDifference(ALL_NUMBERS, contents)
    IN  [k \in 1..Len(options) |-> options[Len(options) + 1 - k]]

getOptionsForCoord(b, coord) ==
    LET row == getRowContents(b, coord)
        col == getColumnContents(b, coord)
        sub == getSubGridContents(b, coord)
        contents == compressContents(row \o col \o sub)
    IN  setDifference(ALL_NUMBERS, contents)

\* `null` of type Coord | null
NoCoord == <<>>

\* the inner loop over j in row i: the first null cell of the row, or null
RECURSIVE scanRow(_, _, _)
scanRow(b, i, j) ==
    IF j > 8 THEN NoCoord
    ELSE IF b[i][j] = Null THEN <<i, j>>
    ELSE scanRow(b, i, j + 1)

\* the outer loop over i
RECURSIVE scanFrom(_, _)
scanFrom(b, i) ==
    IF i > 8 THEN NoCoord
    ELSE IF scanRow(b, i, 0) # NoCoord THEN scanRow(b, i, 0)
    ELSE scanFrom(b, i + 1)

getNextEmptyCoord(b) == scanFrom(b, 0)

(***************************************************************************)
(* checkFullBoard (index.ts:138-159)                                       *)
(***************************************************************************)
checkFullBoard(b) ==
    IF getNextEmptyCoord(b) # NoCoord THEN FALSE
    ELSE \A i \in Domain :
            LET row == getRowContents(b, <<i, 0>>)
                col == getColumnContents(b, <<0, i>>)
                sub == getSubGridContents(b, <<(i * 3) % 9, (i * 3) % 9>>)
                rowAndCol == setIntersection(Range(row), Range(col))
                andSub == setIntersection(Range(sub), rowAndCol)
                intersect == setIntersection(Range(ALL_NUMBERS), andSub)
            IN  Cardinality(intersect) = 9

(***************************************************************************)
(* parseGame (index.ts:13-39) on the text of the file                      *)
(***************************************************************************)
\* content.split(EOL): the pieces between the line breaks, one more than there are breaks
split(s) ==
    LET breaks == {k \in 1..Len(s) : s[k] = EOL}
        \* the position of the n-th line break; 0 before the text, Len(s) + 1 after it
        breakAt(n) ==
            IF n = 0 THEN 0
            ELSE IF n > Cardinality(breaks) THEN Len(s) + 1
            ELSE CHOOSE k \in breaks : Cardinality({m \in breaks : m < k}) = n - 1
    IN  [n \in 1..(Cardinality(breaks) + 1) |-> SubSeq(s, breakAt(n - 1) + 1, breakAt(n) - 1)]

\* .slice(0, -1)
sliceLast(lines) == SubSeq(lines, 1, Len(lines) - 1)

\* Number.parseInt of one character
parseInt(char) ==
    IF \E n \in 1..10 : DigitChars[n] = char
    THEN (CHOOSE n \in 1..10 : DigitChars[n] = char) - 1
    ELSE NaN

charParses(char) == parseInt(char) # NaN \/ char = DELIMITER

parseChar(char) == IF parseInt(char) # NaN THEN parseInt(char) ELSE Null

lineError(line) ==
    IF Len(line) # 9 THEN "File contained a line without exactly 9 characters"
    ELSE IF \E k \in 1..9 : ~charParses(line[k])
    THEN "File contained non-numeric, non-delimiter character"
    ELSE ""

parseGame(text) ==
    LET lines == sliceLast(split(text))
    IN  IF Len(lines) # 9
        THEN [ok |-> FALSE, error |-> "File did not contain exactly 9 lines", rows |-> <<>>]
        ELSE IF \E k \in 1..9 : lineError(lines[k]) # ""
        THEN [ok |-> FALSE,
              error |-> lineError(lines[CHOOSE k \in 1..9 :
                            /\ lineError(lines[k]) # ""
                            /\ \A m \in 1..(k - 1) : lineError(lines[m]) = ""]),
              rows |-> <<>>]
        ELSE [ok |-> TRUE, error |-> "",
              rows |-> [i \in Domain |-> [j \in Domain |-> parseChar(lines[i + 1][j + 1])]]]

(***************************************************************************)
(* prettyPrint (index.ts:161-173): the nine lines it logs                  *)
(***************************************************************************)
prettyRow(b, i) ==
    [k \in 1..18 |->
        IF k % 2 = 0 THEN " "
        ELSE IF b[i][(k - 1) \div 2] = Null THEN "*"
        ELSE DigitChars[b[i][(k - 1) \div 2] + 1]]

prettyPrint(b) == [k \in 1..9 |-> prettyRow(b, k - 1)]

(***************************************************************************)
(* Inputs: boards and file texts                                           *)
(***************************************************************************)
\* how many cells of a base board an input leaves empty, at most
MaxEmpty == 4

boardOf(rows) == [i \in Domain |-> [j \in Domain |-> rows[i + 1][j + 1]]]

\* a complete valid grid
GridG == boardOf(<<
    <<1, 2, 3, 4, 5, 6, 7, 8, 9>>,
    <<4, 5, 6, 7, 8, 9, 1, 2, 3>>,
    <<7, 8, 9, 1, 2, 3, 4, 5, 6>>,
    <<2, 1, 4, 3, 6, 5, 8, 9, 7>>,
    <<3, 6, 5, 8, 9, 7, 2, 1, 4>>,
    <<8, 9, 7, 2, 1, 4, 3, 6, 5>>,
    <<5, 3, 1, 6, 4, 2, 9, 7, 8>>,
    <<6, 4, 2, 9, 7, 8, 5, 3, 1>>,
    <<9, 7, 8, 5, 3, 1, 6, 4, 2>> >>)

\* GridG with its last cell overwritten: 5 twice in row 8, column 8 and the last sub-grid
GridK == [GridG EXCEPT ![8][8] = 5]

\* rows, columns and the three diagonal sub-grids are permutations; sub-grid (0,1) is not
GridL == boardOf(<<
    <<1, 2, 3, 4, 5, 8, 7, 6, 9>>,
    <<4, 5, 6, 7, 8, 9, 1, 2, 3>>,
    <<7, 8, 9, 1, 2, 3, 4, 5, 6>>,
    <<2, 1, 4, 3, 6, 5, 8, 9, 7>>,
    <<3, 6, 5, 8, 9, 7, 2, 1, 4>>,
    <<6, 9, 7, 2, 1, 4, 3, 8, 5>>,
    <<5, 3, 1, 6, 4, 2, 9, 7, 8>>,
    <<8, 4, 2, 9, 7, 6, 5, 3, 1>>,
    <<9, 7, 8, 5, 3, 1, 6, 4, 2>> >>)

\* the cells an input may leave empty
BlankCells == {<<0, 0>>, <<0, 1>>, <<3, 0>>, <<3, 1>>,
               <<7, 3>>, <<7, 6>>, <<8, 3>>,
               <<4, 2>>, <<4, 6>>, <<7, 2>>}

BlankSets == {S \in SUBSET BlankCells : Cardinality(S) <= MaxEmpty}

Blank(b, S) == [i \in Domain |-> [j \in Domain |-> IF <<i, j>> \in S THEN Null ELSE b[i][j]]]

\* the boards solve is called on
InputBoards == {Blank(b, S) : b \in {GridG, GridK}, S \in BlankSets} \cup {GridL}

\* the file of a board: 9 lines of 9 characters, a space for an empty cell
fileOf(b) ==
    [k \in 1..90 |->
        IF k % 10 = 0 THEN EOL
        ELSE LET cell == b[(k - 1) \div 10][(k - 1) % 10]
             IN  IF cell = Null THEN DELIMITER ELSE DigitChars[cell + 1]]

\* console output read back as a file: every logged line ends with EOL
RECURSIVE unlines(_)
unlines(lines) ==
    IF lines = <<>> THEN <<>> ELSE Head(lines) \o <<EOL>> \o unlines(Tail(lines))

CorruptBoards == {Blank(GridG, S) : S \in {T \in BlankSets : Cardinality(T) <= 1}}
CorruptChars == {"0", "x", "*"}
CorruptAt == {1, 45, 89}

BadFiles ==
    LET files == {fileOf(b) : b \in CorruptBoards}
    IN  \* one character replaced
        {[f EXCEPT ![p] = ch] : f \in files, p \in CorruptAt, ch \in CorruptChars}
        \* the last line break missing
        \cup {SubSeq(f, 1, 89) : f \in files}
        \* a tenth line, with and without its line break
        \cup {f \o <<"j", "u", "n", "k">> : f \in files}
        \cup {f \o SubSeq(f, 1, 10) : f \in files}
        \* a line one character short, a line one character long
        \cup {SubSeq(f, 1, 40) \o SubSeq(f, 42, 90) : f \in files}
        \cup {SubSeq(f, 1, 40) \o <<"1">> \o SubSeq(f, 41, 90) : f \in files}
        \* the program's own rendering
        \cup {unlines(prettyPrint(b)) : b \in CorruptBoards}
        \cup {<<>>}

Files == {fileOf(b) : b \in InputBoards} \cup BadFiles

(***************************************************************************)
(* State                                                                   *)
(***************************************************************************)
NoGame == [solved |-> FALSE, board |-> 0]

\* console.log of a message, console.log of a rendered row
logText(s) == [label |-> s, row |-> <<>>]
logRow(r) == [label |-> "", row |-> r]
logBoard(b) == [k \in 1..9 |-> logRow(prettyPrint(b)[k])]

\* a call of solve: its argument, its locals and where it stands; entry is
\* the argument's board as it was when the call was made
frame(game, h) ==
    [game |-> game, entry |-> h[game.board], at |-> "entry",
     next |-> NoCoord, options |-> <<>>, idx |-> 0, newGame |-> NoGame]

top == stack[Len(stack)]
pop == SubSeq(stack, 1, Len(stack) - 1)
setTop(f) == [stack EXCEPT ![Len(stack)] = f]

\* main() at its first line, the file's text not yet read
Init ==
    /\ content \in Files
    /\ pc = "getBoard"
    /\ board = 0
    /\ heap = <<>>
    /\ stack = <<>>
    /\ ret = NoGame
    /\ out = <<>>
    /\ err = ""
    /\ given = <<>>

\* solve({solved: false, board}) called on a board directly
InitSolve ==
    /\ content = <<>>
    /\ pc = "solve"
    /\ board = 1
    /\ heap \in {<<b>> : b \in InputBoards}
    /\ stack = <<frame([solved |-> FALSE, board |-> 1], heap)>>
    /\ ret = NoGame
    /\ out = <<>>
    /\ err = ""
    /\ given = heap[1]

(***************************************************************************)
(* solve (index.ts:117-136)                                                *)
(***************************************************************************)
\* structuredClone replaced by the reference itself: no copy
structuredCloneAlias(h, ref) == [heap |-> h, ref |-> ref]

\* structuredClone(game.board): a new object holding a copy
structuredClone(h, ref) == [heap |-> Append(h, h[ref]), ref |-> Len(h) + 1]

\* the assignment to the copy left out
placeNothing(h, ref, coord, option) == h

\* newBoard[next[0]][next[1]] = option
place(h, ref, coord, option) == [h EXCEPT ![ref][coord[1]][coord[2]] = option]

\* the full board returned as the game that came in, solved: false
solvedGameAsGiven(game) == game

\* { solved: true, board: game.board }
solvedGame(game) == [solved |-> TRUE, board |-> game.board]

return(game) ==
    /\ stack' = pop
    /\ ret' = game
    /\ pc' = IF Len(stack) = 1 THEN "returned" ELSE pc

\* line 119: no empty cell
SolveFull ==
    /\ pc = "solve" /\ top.at = "entry"
    /\ getNextEmptyCoord(heap[top.game.board]) = NoCoord
    /\ return(solvedGame(top.game))
    /\ UNCHANGED <<content, board, heap, out, err, given>>

\* line 123: an empty cell with no option
SolveDeadEnd ==
    /\ pc = "solve" /\ top.at = "entry"
    /\ LET next == getNextEmptyCoord(heap[top.game.board])
       IN  /\ next # NoCoord
           /\ Len(getOptionsForCoord(heap[top.game.board], next)) = 0
    /\ return(top.game)
    /\ UNCHANGED <<content, board, heap, out, err, given>>

\* lines 118-126: the loop over the options starts
SolveBegin ==
    /\ pc = "solve" /\ top.at = "entry"
    /\ LET next == getNextEmptyCoord(heap[top.game.board])
       IN  /\ next # NoCoord
           /\ Len(getOptionsForCoord(heap[top.game.board], next)) # 0
           /\ stack' = setTop([top EXCEPT !.at = "loop", !.next = next, !.idx = 1,
                    !.options = getOptionsForCoord(heap[top.game.board], next)])
    /\ UNCHANGED <<content, pc, board, heap, ret, out, err, given>>

\* lines 127-130: copy, place the option, call solve on the copy
SolveTry ==
    /\ pc = "solve" /\ top.at = "loop"
    /\ top.idx <= Len(top.options)
    /\ LET option == top.options[top.idx]
           clone == structuredClone(heap, top.game.board)
           newHeap == place(clone.heap, clone.ref, top.next, option)
           newGame == [solved |-> FALSE, board |-> clone.ref]
       IN  /\ heap' = newHeap
           /\ stack' = Append(setTop([top EXCEPT !.at = "called", !.newGame = newGame]),
                              frame(newGame, newHeap))
    /\ UNCHANGED <<content, pc, board, ret, out, err, given>>

\* lines 131-132: the call returned solved
SolvePropagate ==
    /\ pc = "solve" /\ top.at = "called"
    /\ ret.solved
    /\ return(ret)
    /\ UNCHANGED <<content, board, heap, out, err, given>>

\* lines 131, 126: the call returned unsolved, on to the next option
SolveNextOption ==
    /\ pc = "solve" /\ top.at = "called"
    /\ ~ret.solved
    /\ stack' = setTop([top EXCEPT !.at = "loop", !.idx = top.idx + 1])
    /\ UNCHANGED <<content, pc, board, heap, ret, out, err, given>>

\* line 135: no option left
SolveExhausted ==
    /\ pc = "solve" /\ top.at = "loop"
    /\ top.idx > Len(top.options)
    /\ return(top.game)
    /\ UNCHANGED <<content, board, heap, out, err, given>>

SolveStep ==
    \/ SolveFull
    \/ SolveDeadEnd
    \/ SolveBegin
    \/ SolveTry
    \/ SolvePropagate
    \/ SolveNextOption
    \/ SolveExhausted

(***************************************************************************)
(* main (index.ts:193-211)                                                 *)
(***************************************************************************)
\* line 194: getBoard returns the parsed board
ParseOk ==
    /\ pc = "getBoard"
    /\ parseGame(content).ok
    /\ heap' = <<parseGame(content).rows>>
    /\ board' = 1
    /\ pc' = "print"
    /\ UNCHANGED <<content, stack, ret, out, err, given>>

\* line 194: parseGame throws, main ends with the error
ParseThrow ==
    /\ pc = "getBoard"
    /\ ~parseGame(content).ok
    /\ err' = parseGame(content).error
    /\ pc' = "threw"
    /\ UNCHANGED <<content, board, heap, stack, ret, out, given>>

\* lines 195-197
PrintOriginal ==
    /\ pc = "print"
    /\ out' = <<logText("Original board")>> \o logBoard(heap[board])
                \o <<logText("-----------------")>>
    /\ pc' = "check"
    /\ UNCHANGED <<content, board, heap, stack, ret, err, given>>

\* lines 198, 209
PreSolved ==
    /\ pc = "check"
    /\ checkFullBoard(heap[board])
    /\ out' = Append(out, logText("PRE-SOLVED"))
    /\ pc' = "done"
    /\ UNCHANGED <<content, board, heap, stack, ret, err, given>>

\* lines 198-200
CallSolve ==
    /\ pc = "check"
    /\ ~checkFullBoard(heap[board])
    /\ stack' = <<frame([solved |-> FALSE, board |-> board], heap)>>
    /\ pc' = "solve"
    /\ given' = heap[board]
    /\ UNCHANGED <<content, board, heap, ret, out, err>>

\* lines 201-202
Unsolvable ==
    /\ pc = "returned"
    /\ ~ret.solved
    /\ out' = Append(out, logText("UNSOLVABLE"))
    /\ pc' = "done"
    /\ UNCHANGED <<content, board, heap, stack, ret, err, given>>

\* lines 204-206
Solved ==
    /\ pc = "returned"
    /\ ret.solved
    /\ board' = ret.board
    /\ out' = Append(out, logText("SOLVED")) \o logBoard(heap[ret.board])
    /\ pc' = "done"
    /\ UNCHANGED <<content, heap, stack, ret, err, given>>

Next ==
    \/ ParseOk
    \/ ParseThrow
    \/ PrintOriginal
    \/ PreSolved
    \/ CallSolve
    \/ SolveStep
    \/ Unsolvable
    \/ Solved

\* the program run on a file
Spec == Init /\ [][Next]_vars

\* solve called on a board
SolveSpec == InitSolve /\ [][SolveStep]_vars

\* a call that can take a step takes it: the recursion is synchronous
FairSolveSpec == SolveSpec /\ WF_vars(SolveStep)

(***************************************************************************)
(* What a solution is, stated apart from the program                       *)
(***************************************************************************)
rowOf(b, i) == {b[i][j] : j \in Domain}
columnOf(b, j) == {b[i][j] : i \in Domain}
subGridOf(b, bi, bj) == {b[3 * bi + di][3 * bj + dj] : di \in 0..2, dj \in 0..2}

\* each of the 9 rows, 9 columns and 9 sub-grids is a permutation of 1-9
IsSolution(b) ==
    /\ \A i \in Domain : rowOf(b, i) = Numbers
    /\ \A j \in Domain : columnOf(b, j) = Numbers
    /\ \A bi \in 0..2 : \A bj \in 0..2 : subGridOf(b, bi, bj) = Numbers

EmptyCells(b) == {c \in Coords : b[c[1]][c[2]] = Null}
Empties(b) == Cardinality(EmptyCells(b))

\* every cell filled in b holds the same value in full
Keeps(full, b) == \A c \in Coords : b[c[1]][c[2]] # Null => full[c[1]][c[2]] = b[c[1]][c[2]]

\* the solutions that keep the filled cells of b: every filling of its empty
\* cells is tried but those that repeat a value within a row, which are no
\* solutions
RECURSIVE Completions(_)
Completions(b) ==
    IF EmptyCells(b) = {} THEN (IF IsSolution(b) THEN {b} ELSE {})
    ELSE LET c == CHOOSE e \in EmptyCells(b) : TRUE
         IN  UNION {Completions([b EXCEPT ![c[1]][c[2]] = d]) :
                        d \in Numbers \ rowOf(b, c[1])}

Solvable(b) == Completions(b) # {}

Before(c, d) == c[1] < d[1] \/ (c[1] = d[1] /\ c[2] < d[2])

\* a = b, or a holds the smaller digit at the first cell, in row-major order, where they differ
LexLeq(a, b) ==
    \/ a = b
    \/ \E c \in Coords :
        /\ a[c[1]][c[2]] < b[c[1]][c[2]]
        /\ \A d \in Coords : Before(d, c) => a[d[1]][d[2]] = b[d[1]][d[2]]

lastLabel == out[CHOOSE k \in 1..Len(out) :
                /\ out[k].label # ""
                /\ \A m \in (k + 1)..Len(out) : out[m].label = ""].label

\* the rows main printed under "Original board", as text
printedOriginal == unlines([k \in 1..9 |-> out[k + 1].row])

\* a file of exactly 9 lines of exactly 9 characters, each a digit 1-9 or the blank marker
WellFormed(text) ==
    /\ Len(text) = 90
    /\ \A k \in 1..90 :
        IF k % 10 = 0 THEN text[k] = EOL
        ELSE text[k] = DELIMITER \/ \E n \in 2..10 : text[k] = DigitChars[n]

(***************************************************************************)
(* Properties                                                              *)
(***************************************************************************)
\* C1: solve called on a solvable board returns solved: true with a full
\* board that is a solution, that checkFullBoard accepts, and that keeps
\* every cell filled in the input.
C1_SolvableIsSolved ==
    (pc = "returned" /\ Solvable(given)) =>
        /\ ret.solved
        /\ EmptyCells(heap[ret.board]) = {}
        /\ IsSolution(heap[ret.board])
        /\ checkFullBoard(heap[ret.board])
        /\ Keeps(heap[ret.board], given)

\* a solvable board with MaxEmpty empty cells was solved after a failed branch
C1_Witness ==
    /\ pc = "returned" /\ ret.solved /\ Solvable(given)
    /\ Empties(given) = MaxEmpty
    /\ Len(heap) > 1 + Empties(given)

\* C2: checkFullBoard returns true exactly when the board has no empty cell
\* and every row, column and sub-grid, off-diagonal ones included, is a
\* permutation of 1-9: main takes the PRE-SOLVED branch for such boards and
\* calls solve for all others.
C2_CheckFullBoardExact ==
    /\ (pc = "done" /\ lastLabel = "PRE-SOLVED") => IsSolution(heap[board])
    /\ pc = "solve" => ~IsSolution(given)

\* C3: solve returns solved: false or a board that is a solution; main prints
\* SOLVED only above a solution and UNSOLVABLE when the board it called solve
\* on has no valid completion.
C3_SolvedMeansSolution ==
    /\ (pc = "returned" /\ ret.solved) => IsSolution(heap[ret.board])
    /\ (pc = "done" /\ lastLabel = "SOLVED") => IsSolution(heap[board])
    /\ (pc = "done" /\ lastLabel # "PRE-SOLVED" /\ ~Solvable(given)) =>
            lastLabel = "UNSOLVABLE"

\* C5: parseGame succeeds only on 9 lines of 9 characters, each a digit 1-9 or
\* the blank marker, and throws on any other text; a parsed board has only
\* empty cells and digits 1-9.
C5_ParseStrict ==
    /\ pc = "threw" => ~WellFormed(content)
    /\ pc \notin {"getBoard", "threw"} =>
        /\ WellFormed(content)
        /\ \A c \in Coords :
             LET cell == parseGame(content).rows[c[1]][c[2]]
             IN  cell = Null \/ cell \in Numbers

\* C6: the text prettyPrint produced for the original board parses back to
\* that board.
C6_RoundTrip ==
    pc = "check" =>
        /\ parseGame(printedOriginal).ok
        /\ parseGame(printedOriginal).rows = heap[board]

\* C7: solve called on a complete valid board returns solved: true with that
\* very board, no copy made, so no digit placed and no recursive call.
C7_CompleteUnchanged ==
    (pc = "returned" /\ IsSolution(given)) =>
        /\ ret = [solved |-> TRUE, board |-> 1]
        /\ heap = <<given>>

C7_Witness == pc = "returned" /\ IsSolution(given) /\ ret.solved

\* C8: every recursive call is on a board with exactly one empty cell less
\* than its caller's, the depth of the recursion never exceeds the number of
\* empty cells of the input, and the outermost call returns.
C8_Depth ==
    /\ Len(stack) <= 1 + Empties(given)
    /\ \A k \in 2..Len(stack) :
        Empties(heap[stack[k].game.board]) = Empties(heap[stack[k - 1].game.board]) - 1

C8_Terminates == []C8_Depth /\ <>(pc = "returned")

\* the recursion is as deep as the input has empty cells
C8_Witness == Len(stack) = 1 + MaxEmpty /\ Empties(given) = MaxEmpty

\* C9: the board of every call in progress, and of the outermost call after
\* it returned, is what it was when the call was made; a call that returns
\* unsolved returns the game it was given.
C9_InputUntouched ==
    /\ \A k \in 1..Len(stack) : heap[stack[k].game.board] = stack[k].entry
    /\ pc = "returned" => heap[1] = given
    /\ (pc = "returned" /\ ~ret.solved) => ret = [solved |-> FALSE, board |-> 1]
    /\ (pc = "solve" /\ top.at = "called" /\ ~ret.solved) => ret = top.newGame

\* a branch failed and its caller, board intact, is about to try a sibling
C9_Witness ==
    /\ pc = "solve" /\ top.at = "loop" /\ top.idx = 2 /\ Len(top.options) >= 2
    /\ heap[top.game.board] = top.entry

\* C10: every call fills the first empty cell in row-major order with its
\* options in ascending order, and on a solvable board solve returns the
\* smallest valid completion, cells compared in row-major order.
C10_FirstCellAscending ==
    /\ \A k \in 1..Len(stack) : stack[k].at # "entry" =>
        /\ stack[k].next \in EmptyCells(stack[k].entry)
        /\ \A e \in EmptyCells(stack[k].entry) : ~Before(e, stack[k].next)
        /\ \A m \in 2..Len(stack[k].options) :
                stack[k].options[m - 1] < stack[k].options[m]
    /\ (pc = "returned" /\ Solvable(given)) =>
        /\ ret.solved
        /\ heap[ret.board] \in Completions(given)
        /\ \A full \in Completions(given) : LexLeq(heap[ret.board], full)

\* solve returned a completion of a board that has several
C10_Witness ==
    /\ pc = "returned" /\ ret.solved
    /\ Cardinality(Completions(given)) > 1

====
